---------------------------- MODULE Spec2Model ----------------------------
(*  TradingAgentWorkflow (src/src/workflow.py): the four steps of one workflow
    invocation, the AgentState they read and write through the context store,
    and the TradingPlan they carry, over repeated invocations.

    Amounts (cash_balance, current_position) are exact rationals <<n, d>> in
    lowest terms with d > 0; the code computes them in binary floating point,
    so equalities between amounts below are the exact-arithmetic ones.
    Prices, target_price and stop_loss are integers.                        *)
EXTENDS Integers, Sequences, FiniteSets, TLC

\* ------------------------------------------------------------------ bounds
MaxCycles == 3     \* invocations of the workflow in one behaviour
MaxPrice  == 3     \* prices, targets and stops range over 0..MaxPrice / 1..MaxPrice
MaxRuns   == 2     \* direct runs of the execute/monitor step in StepSpec

\* ------------------------------------------------------- rational numbers
Abs(x) == IF x < 0 THEN -x ELSE x

RECURSIVE GCD(_, _)
GCD(a, b) == IF b = 0 THEN a ELSE GCD(b, a % b)

Norm(n, d) == LET g == GCD(Abs(n), d) IN <<n \div g, d \div g>>

R(n) == <<n, 1>>

RAdd(a, b) == Norm(a[1] * b[2] + b[1] * a[2], a[2] * b[2])
RSub(a, b) == Norm(a[1] * b[2] - b[1] * a[2], a[2] * b[2])
RMul(a, b) == Norm(a[1] * b[1], a[2] * b[2])
\* a / b for b # 0
RDiv(a, b) == IF b[1] > 0 THEN Norm(a[1] * b[2], a[2] * b[1])
                          ELSE Norm(-(a[1] * b[2]), a[2] * (-b[1]))

\* ------------------------------------------------------------- data model
None == [tag |-> "None"]

IsNone(x) == x.tag = "None"

MarketCycles == {"bull_trend", "bear_trend", "trading_range"}
Actions      == {"BUY", "SELL", "HOLD"}
Statuses     == {"PENDING", "ACTIVE", "FILLED", "CLOSED"}

RequiredPlanFields == {"market_cycle", "action", "target_price", "stop_loss", "reasoning"}

\* TradingPlan(**kw): pydantic validation of the keyword arguments kw (a
\* function from field names to values).  A required field that is absent,
\* or a value outside a Literal, raises ValidationError; status defaults to
\* "PENDING".
PlanValid(kw) ==
    /\ RequiredPlanFields \subseteq DOMAIN kw
    /\ kw["market_cycle"] \in MarketCycles
    /\ kw["action"] \in Actions
    /\ ("status" \in DOMAIN kw) => kw["status"] \in Statuses

TradingPlan(kw) ==
    IF PlanValid(kw)
    THEN [tag          |-> "TradingPlan",
          market_cycle |-> kw["market_cycle"],
          action       |-> kw["action"],
          target_price |-> kw["target_price"],
          stop_loss    |-> kw["stop_loss"],
          status       |-> IF "status" \in DOMAIN kw THEN kw["status"] ELSE "PENDING",
          reasoning    |-> kw["reasoning"]]
    ELSE [tag |-> "ValidationError"]

DefaultCash == 10000

\* AgentState(cash_balance=c): the other fields take their defaults.
AgentState(c) ==
    [tag              |-> "AgentState",
     cash_balance     |-> c,
     current_position |-> R(0),
     active_plan      |-> None,
     last_update_time |-> 0]


\* ------------------------------------------------------------ JSON values
\* What json.loads returns, tagged by its Python type.
JNull    == [t |-> "null"]
JBool(b) == [t |-> "bool", b |-> b]
JNum(n)  == [t |-> "num", n |-> n]
JStr(s)  == [t |-> "str", s |-> s]
JList(l) == [t |-> "list", l |-> l]
JObj(f)  == [t |-> "object", f |-> f]

\* bool(x) of a decoded JSON value: Python truthiness.
Truthy(j) ==
    CASE j.t = "null"   -> FALSE
      [] j.t = "bool"   -> j.b
      [] j.t = "num"    -> j.n # 0
      [] j.t = "str"    -> j.s # ""
      [] j.t = "list"   -> Len(j.l) # 0
      [] j.t = "object" -> DOMAIN j.f # {}

\* decision.get(key): None when the key is absent.  Only a dict has .get;
\* on any other decoded value the attribute lookup raises AttributeError.
HasGet(j) == j.t = "object"

Get(j, key) == IF key \in DOMAIN j.f THEN j.f[key] ELSE JNull

\* str(x) as it appears in an f-string, for the values used as reasoning.
Str(j) == IF j.t = "str" THEN j.s ELSE "None"

\* ------------------------------------------------------------------ inputs
Prices == 0 .. MaxPrice        \* get_current_price() results
Levels == 1 .. MaxPrice        \* target_price / stop_loss the advisor proposes

AdvisorCycles    == {"bull_trend"}
AdvisorReasoning == {<<"setup">>}

EmptyFn == [x \in {} |-> 0]

\* Keyword sets the advisor's JSON can carry.
ValidPlanJson ==
    [market_cycle : AdvisorCycles, action : Actions, target_price : Levels,
     stop_loss : Levels, reasoning : AdvisorReasoning]
    \cup
    [market_cycle : AdvisorCycles, action : Actions, target_price : Levels,
     stop_loss : Levels, reasoning : AdvisorReasoning, status : Statuses]

InvalidPlanJson ==
    { [action |-> "BUY", target_price |-> MaxPrice, stop_loss |-> 1,
       reasoning |-> <<"setup">>, status |-> "PENDING"],
      [market_cycle |-> "bull_trend", action |-> "buy", target_price |-> MaxPrice,
       stop_loss |-> 1, reasoning |-> <<"setup">>] }

\* The advisor's reply: text that is not JSON, or a JSON object.
AdvisorResponses ==
    {[kind |-> "text"]} \cup
    {[kind |-> "json", kw |-> kw] : kw \in ValidPlanJson \cup InvalidPlanJson}

ReviewerObjects ==
    { EmptyFn,
      [reasoning |-> JStr("no verdict")],
      [approved |-> JBool(TRUE),  reasoning |-> JStr("ok")],
      [approved |-> JBool(FALSE), reasoning |-> JStr("too risky")],
      [approved |-> JBool(FALSE)],
      [approved |-> JStr("false"), reasoning |-> JStr("too risky")],
      [approved |-> JStr("")],
      [approved |-> JNum(1)],
      [approved |-> JNum(0)],
      [approved |-> JNull] }

\* The reviewer's reply: text that is not JSON, JSON that is no object, or
\* a JSON object.
ReviewerResponses ==
    {[kind |-> "text"]} \cup
    {[kind |-> "json", value |-> v] :
        v \in {JNull, JBool(TRUE), JNum(1), JStr("approved"), JList(<<JBool(TRUE)>>)}
              \cup {JObj(f) : f \in ReviewerObjects}}


\* ------------------------------------------------------------------- state
VARIABLES
    store,    \* ctx.store["state"]: the AgentState, or None
    event,    \* the event in flight; a StopEvent carries the result
    cycles,   \* invocations started so far
    pre,      \* the AgentState the current invocation started from, or None
    trace,    \* the steps the current invocation has run, in order
    calls,    \* collaborator calls and store writes of the current invocation
    price,    \* current_price of the latest execute_or_monitor run, -1 if none
    lastPrice,\* current_price of the run before that one, -1 if none
    review,   \* the reviewer's reply in the current invocation, if it was asked
    caught,   \* the exception the latest except clause caught, "" if none
    given,    \* what the caller gave the current invocation: the StartEvent's
              \* state and the state in the Context's store, each possibly None
    unfilled  \* TRUE iff the invocation before this one ended with the price
              \* call failing right after the reviewer's approval

vars == <<store, event, cycles, pre, trace, calls, price, lastPrice, review, caught,
          given, unfilled>>

NoReply == [kind |-> "none"]

NoCalls == [advisor |-> 0, reviewer |-> 0, snapshot |-> 0, price |-> 0, set |-> 0,
            snapshot_raised |-> 0]

Called(what) == [calls EXCEPT ![what] = @ + 1]

\* Events of the workflow (workflow.py:19-28 and the framework's own).
StartEvent(st)           == [type |-> "StartEvent", state |-> st]
MarketAnalysisEvent      == [type |-> "MarketAnalysisEvent", summary |-> "summary"]
TradeProposalEvent(plan) == [type |-> "TradeProposalEvent", proposal |-> plan,
                             market_summary |-> "summary"]
TradeSignalEvent         == [type |-> "TradeSignalEvent"]
StopEvent(res)           == [type |-> "StopEvent", result |-> res]
\* An exception that leaves a step ends the run; the caller gets the exception.
WorkflowFailure(e)       == [type |-> "WorkflowFailure", error |-> e]

StrResult(text, detail) == [kind |-> "str", text |-> text, detail |-> detail]
StateResult(st)         == [kind |-> "state", state |-> st]

Finished == event.type \in {"StopEvent", "WorkflowFailure"}

\* datetime.datetime.now().isoformat(): one instant per invocation, never "".
Now == cycles

Init ==
    /\ store = None
    /\ event = [type |-> "None"]
    /\ cycles = 0
    /\ pre = None
    /\ trace = <<>>
    /\ calls = NoCalls
    /\ price = -1
    /\ lastPrice = -1
    /\ review = NoReply
    /\ caught = ""
    /\ given = [event |-> None, store |-> None]
    /\ unfilled = FALSE

\* agent.run(...): the caller hands the persisted state over in the
\* StartEvent (with a new Context), or runs on the Context it kept.
Run ==
    /\ event.type = "None" \/ Finished
    /\ cycles < MaxCycles
    /\ \E viaEvent \in BOOLEAN :
          /\ event' = StartEvent(IF viaEvent THEN store ELSE None)
          /\ store' = IF viaEvent THEN None ELSE store
          /\ given' = [event |-> IF viaEvent THEN store ELSE None,
                       store |-> IF viaEvent THEN None ELSE store]
    /\ pre' = store
    /\ unfilled' = (event = WorkflowFailure("price") /\ calls.reviewer = 1)
    /\ cycles' = cycles + 1
    /\ trace' = <<>>
    /\ calls' = NoCalls
    /\ price' = -1
    /\ lastPrice' = -1
    /\ review' = NoReply
    /\ caught' = ""

\* ---------------------------------------------------------- analyze_market
\* The logic guard with its test dropped: every invocation analyses afresh.
HasActivePlan_Dropped(st) == FALSE

\* The logic guard of analyze_market.
HasActivePlan(st) ==
    /\ ~IsNone(st.active_plan)
    /\ st.active_plan.status = "ACTIVE"

\* State recovery with the store's state taking priority over the event's.
Recover_StoreFirst(event_state, stored) ==
    IF ~IsNone(stored) THEN stored ELSE event_state

\* State recovery: the StartEvent's state if it carries one, else the store's.
Recover(event_state, stored) ==
    IF ~IsNone(event_state) THEN event_state ELSE stored

\* A failed snapshot swallowed: the analysis goes on without data.
AfterSnapshot_Swallowed(ok) == MarketAnalysisEvent

\* summary = get_market_snapshot(); return MarketAnalysisEvent(summary=summary):
\* the exception of a failed fetch leaves the step.
AfterSnapshot(ok) == IF ok THEN MarketAnalysisEvent ELSE WorkflowFailure("snapshot")

analyze_market ==
    /\ event.type = "StartEvent"
    /\ LET event_state   == event.state
           recovered     == Recover(event_state, store)
           current_state == IF IsNone(recovered) THEN AgentState(R(DefaultCash))
                                                 ELSE recovered
           sets          == (IF ~IsNone(event_state) THEN 1 ELSE 0)
                            + (IF IsNone(recovered) THEN 1 ELSE 0)
       IN  /\ store' = current_state
           /\ trace' = Append(trace, "analyze_market")
           /\ IF HasActivePlan(current_state)
              THEN /\ event' = TradeSignalEvent
                   /\ calls' = [calls EXCEPT !.set = @ + sets]
              ELSE \* get_market_snapshot() returns the summary or raises
                   /\ \E ok \in BOOLEAN :
                        /\ event' = AfterSnapshot(ok)
                        /\ calls' = [calls EXCEPT
                                       !.set = @ + sets,
                                       !.snapshot = @ + 1,
                                       !.snapshot_raised = @ + (IF ok THEN 0 ELSE 1)]
    /\ UNCHANGED <<cycles, pre, price, lastPrice, review, caught, given, unfilled>>

\* ---------------------------------------------------------- formulate_plan
\* parser.parse(raw_text): the TradingPlan, or the exception it raises.
Parse(r) ==
    IF r.kind = "json" THEN TradingPlan(r.kw) ELSE [tag |-> "OutputParserException"]

\* The plan built in the except branch.
Fallback(e) ==
    TradingPlan([action |-> "HOLD", target_price |-> 0, stop_loss |-> 0,
                 reasoning |-> <<"Error: ", e>>])

formulate_plan ==
    /\ event.type = "MarketAnalysisEvent"
    /\ trace' = Append(trace, "formulate_plan")
    /\ calls' = Called("advisor")
    /\ \E r \in AdvisorResponses \cup {[kind |-> "raise"]} :
          IF r.kind = "raise"
          THEN /\ event' = WorkflowFailure("advisor")
               /\ UNCHANGED caught
          ELSE LET parsed   == Parse(r)
                   proposal == IF parsed.tag = "TradingPlan" THEN parsed
                                                             ELSE Fallback(parsed.tag)
               IN  /\ caught' = IF parsed.tag = "TradingPlan" THEN "" ELSE parsed.tag
                   /\ event' = IF proposal.tag = "TradingPlan"
                                THEN TradeProposalEvent(proposal)
                                ELSE WorkflowFailure(proposal.tag)
    /\ UNCHANGED <<store, cycles, pre, price, lastPrice, review, given, unfilled>>


\* ------------------------------------------------------------- risk_review
\* The HOLD test dropped: a HOLD proposal goes to the reviewer like any other.
IsHold_Never(proposal) == FALSE

IsHold(proposal) == proposal.action = "HOLD"

\* The test written as `is not None`: any value under "approved" approves.
Approved_IsNotNone(decision) == Get(decision, "approved") # JNull

\* if decision.get("approved"):
Approved(decision) == Truthy(Get(decision, "approved"))

\* Activation that forgets to stamp last_update_time.
Activate_NoStamp(st, proposal, now) ==
    [st EXCEPT !.active_plan = [proposal EXCEPT !.status = "ACTIVE"]]

\* Activate the plan: status, active_plan, last_update_time.
Activate(st, proposal, now) ==
    [st EXCEPT !.active_plan      = [proposal EXCEPT !.status = "ACTIVE"],
               !.last_update_time = now]

\* The rejection returning the state instead of the message.
RejectedResult_ReturnsState(decision) == StateResult(store)

HoldResult               == StrResult("Trader decided to HOLD. No action.", "")
RejectedResult(decision) == StrResult("Plan Rejected: ", Str(Get(decision, "reasoning")))
ReviewError(e)           == StrResult("Risk Review Error: ", e)

\* The exception the try block raises on the reviewer's reply r, "" if none:
\* json.loads on text that is not JSON, .get on a value that is no dict.
ReviewRaises(r) ==
    IF r.kind = "text" THEN "JSONDecodeError"
    ELSE IF ~HasGet(r.value) THEN "AttributeError"
    ELSE ""

risk_review ==
    /\ event.type = "TradeProposalEvent"
    /\ trace' = Append(trace, "risk_review")
    /\ LET proposal == event.proposal
       IN  IF IsHold(proposal)
           THEN /\ event' = StopEvent(HoldResult)
                /\ UNCHANGED <<store, calls, review, caught>>
           ELSE \E r \in ReviewerResponses \cup {[kind |-> "raise"]} :
                  /\ review' = r
                  /\ IF r.kind = "raise"
                     THEN \* risk_llm.achat raises, outside the try block
                          /\ event' = WorkflowFailure("reviewer")
                          /\ calls' = Called("reviewer")
                          /\ UNCHANGED <<store, caught>>
                     ELSE IF ReviewRaises(r) # ""
                     THEN /\ caught' = ReviewRaises(r)
                          /\ event' = StopEvent(ReviewError(ReviewRaises(r)))
                          /\ calls' = Called("reviewer")
                          /\ UNCHANGED store
                     ELSE IF Approved(r.value)
                     THEN /\ store' = Activate(store, proposal, Now)
                          /\ calls' = [calls EXCEPT !.reviewer = @ + 1, !.set = @ + 1]
                          /\ event' = TradeSignalEvent
                          /\ UNCHANGED caught
                     ELSE /\ event' = StopEvent(RejectedResult(r.value))
                          /\ calls' = Called("reviewer")
                          /\ UNCHANGED <<store, caught>>
    /\ UNCHANGED <<cycles, pre, price, lastPrice, given, unfilled>>

\* ------------------------------------------------------ execute_or_monitor
AllocFraction == <<99, 100>>      \* 0.99

\* The guard without its status test.
NotActive_NoneOnly(plan) == IsNone(plan)

\* if not plan or plan.status != "ACTIVE":
NotActive(plan) == IsNone(plan) \/ plan.status # "ACTIVE"

\* The fill spending all of cash_balance instead of 99% of it.
EntryFill_AllIn(st, p) ==
    LET position == RDiv(st.cash_balance, R(p))
    IN  [st EXCEPT !.current_position = position,
                   !.cash_balance     = RSub(@, RMul(position, R(p)))]

\* Mock fill of a BUY entry at current_price p # 0.
EntryFill(st, p) ==
    LET position == RDiv(RMul(st.cash_balance, AllocFraction), R(p))
    IN  [st EXCEPT !.current_position = position,
                   !.cash_balance     = RSub(@, RMul(position, R(p)))]

\* The stop test with < for <=.
StopHit_Strict(plan, p) == p < plan.stop_loss

StopHit(plan, p)   == p <= plan.stop_loss
TargetHit(plan, p) == p >= plan.target_price

\* The liquidation with its sign slipped: the proceeds are debited.
Liquidate_Debits(st, p, note) ==
    [st EXCEPT !.cash_balance          = RSub(@, RMul(st.current_position, R(p))),
               !.current_position      = R(0),
               !.active_plan.status    = "CLOSED",
               !.active_plan.reasoning = Append(@, note)]

\* The liquidation overwriting the plan's reasoning with the annotation.
Liquidate_ReplacesReasoning(st, p, note) ==
    [st EXCEPT !.cash_balance          = RAdd(@, RMul(st.current_position, R(p))),
               !.current_position      = R(0),
               !.active_plan.status    = "CLOSED",
               !.active_plan.reasoning = <<note>>]

\* The liquidation leaving the position open.
Liquidate_KeepsPosition(st, p, note) ==
    [st EXCEPT !.cash_balance          = RAdd(@, RMul(st.current_position, R(p))),
               !.active_plan.status    = "CLOSED",
               !.active_plan.reasoning = Append(@, note)]

\* Sell the whole position at p, close the plan and annotate its reasoning.
Liquidate(st, p, note) ==
    [st EXCEPT !.cash_balance          = RAdd(@, RMul(st.current_position, R(p))),
               !.current_position      = R(0),
               !.active_plan.status    = "CLOSED",
               !.active_plan.reasoning = Append(@, note)]

\* The SELL branch closing the plan ("or just exit").
SellBranch_Closes(st, p) == [st EXCEPT !.active_plan.status = "CLOSED"]

\* elif plan.action == "SELL": pass
SellBranch(st, p) == st

\* The body with the exit check run on the position just entered: a fill at
\* a price already past the stop or the target is liquidated in the same run.
Execute_FillThenCheck(st, p) ==
    LET plan == st.active_plan
    IN  IF NotActive(plan)
        THEN [state |-> st, set |-> FALSE, raised |-> ""]
        ELSE IF plan.action = "BUY"
        THEN IF st.current_position = R(0) /\ p = 0
             THEN [state |-> st, set |-> FALSE, raised |-> "ZeroDivisionError"]
             ELSE LET held == IF st.current_position = R(0) THEN EntryFill(st, p)
                                                            ELSE st
                  IN  IF StopHit(plan, p)
                      THEN [state |-> Liquidate(held, p, " [Stopped Out]"),
                            set |-> TRUE, raised |-> ""]
                      ELSE IF TargetHit(plan, p)
                      THEN [state |-> Liquidate(held, p, " [Target Hit]"),
                            set |-> TRUE, raised |-> ""]
                      ELSE [state |-> held, set |-> TRUE, raised |-> ""]
        ELSE [state |-> st, set |-> TRUE, raised |-> ""]

\* The body with the target tested before the stop.
Execute_TargetFirst(st, p) ==
    LET plan == st.active_plan
    IN  IF NotActive(plan)
        THEN [state |-> st, set |-> FALSE, raised |-> ""]
        ELSE IF plan.action = "BUY"
        THEN IF st.current_position = R(0)
             THEN IF p = 0
                  THEN [state |-> st, set |-> FALSE, raised |-> "ZeroDivisionError"]
                  ELSE [state |-> EntryFill(st, p), set |-> TRUE, raised |-> ""]
             ELSE IF TargetHit(plan, p)
                  THEN [state |-> Liquidate(st, p, " [Target Hit]"), set |-> TRUE,
                        raised |-> ""]
                  ELSE IF StopHit(plan, p)
                  THEN [state |-> Liquidate(st, p, " [Stopped Out]"), set |-> TRUE,
                        raised |-> ""]
                  ELSE [state |-> st, set |-> TRUE, raised |-> ""]
        ELSE [state |-> st, set |-> TRUE, raised |-> ""]

\* The body of execute_or_monitor after the price is fetched: the state it
\* leaves, whether it reached ctx.store.set, and the exception if it raised.
Execute(st, p) ==
    LET plan == st.active_plan
    IN  IF NotActive(plan)
        THEN [state |-> st, set |-> FALSE, raised |-> ""]
        ELSE IF plan.action = "BUY"
        THEN IF st.current_position = R(0)
             THEN IF p = 0
                  THEN [state |-> st, set |-> FALSE, raised |-> "ZeroDivisionError"]
                  ELSE [state |-> EntryFill(st, p), set |-> TRUE, raised |-> ""]
             ELSE IF StopHit(plan, p)
                  THEN [state |-> Liquidate(st, p, " [Stopped Out]"), set |-> TRUE,
                        raised |-> ""]
                  ELSE IF TargetHit(plan, p)
                  THEN [state |-> Liquidate(st, p, " [Target Hit]"), set |-> TRUE,
                        raised |-> ""]
                  ELSE [state |-> st, set |-> TRUE, raised |-> ""]
        ELSE IF plan.action = "SELL"
        THEN [state |-> SellBranch(st, p), set |-> TRUE, raised |-> ""]
        ELSE [state |-> st, set |-> TRUE, raised |-> ""]

execute_or_monitor ==
    /\ event.type = "TradeSignalEvent"
    /\ trace' = Append(trace, "execute_or_monitor")
    /\ \/ \* get_current_price() raises
          /\ event' = WorkflowFailure("price")
          /\ calls' = Called("price")
          /\ UNCHANGED <<store, price, lastPrice>>
       \/ \E p \in Prices :
            LET out == Execute(store, p)
            IN  /\ price' = p
                /\ lastPrice' = price
                /\ store' = out.state
                /\ calls' = [calls EXCEPT !.price = @ + 1,
                                          !.set = @ + (IF out.set THEN 1 ELSE 0)]
                /\ event' = IF out.raised = ""
                            THEN StopEvent(StateResult(out.state))
                            ELSE WorkflowFailure(out.raised)
    /\ UNCHANGED <<cycles, pre, review, caught, given, unfilled>>

\* ------------------------------------------------------------ specification
Next ==
    \/ Run
    \/ analyze_market
    \/ formulate_plan
    \/ risk_review
    \/ execute_or_monitor

Spec == Init /\ [][Next]_vars


\* ------------------------------------------- the execute/monitor step alone
\* The step run directly, as a unit test drives it: from any AgentState
\* that holds a plan, and again on the state the previous run left.
StepCash      == {R(0), R(100)}
StepPositions == {R(0), R(1), R(-1), <<1, 3>>}

StepPlans ==
    { TradingPlan(kw) : kw \in
        [market_cycle : AdvisorCycles, action : Actions, target_price : Levels,
         stop_loss : Levels, reasoning : AdvisorReasoning,
         status : {"ACTIVE", "CLOSED"}] }

StepStates ==
    { [AgentState(c) EXCEPT !.current_position = q, !.active_plan = plan,
                            !.last_update_time = 1] :
        c \in StepCash, q \in StepPositions, plan \in StepPlans }

StepInit ==
    /\ store \in StepStates
    /\ event = TradeSignalEvent
    /\ cycles = 1
    /\ pre = store
    /\ trace = <<>>
    /\ calls = NoCalls
    /\ price = -1
    /\ lastPrice = -1
    /\ review = NoReply
    /\ caught = ""
    /\ given = [event |-> None, store |-> store]
    /\ unfilled = FALSE

\* The next TradeSignalEvent, on the state the run before left.
ReRun ==
    /\ event.type = "StopEvent"
    /\ Len(trace) < MaxRuns
    /\ event' = TradeSignalEvent
    /\ UNCHANGED <<store, cycles, pre, trace, calls, price, lastPrice, review, caught,
                 given, unfilled>>

StepNext ==
    \/ execute_or_monitor
    \/ ReRun

StepSpec == StepInit /\ [][StepNext]_vars


\* ------------------------------------------------- one invocation's start
\* A single agent.run(...) from every combination of a state in the
\* StartEvent and a state in the Context's store, either of them absent.
StartPlan(status) ==
    TradingPlan([market_cycle |-> "bull_trend", action |-> "BUY",
                 target_price |-> MaxPrice, stop_loss |-> 1,
                 reasoning |-> <<"setup">>, status |-> status])

StartStates ==
    { None,
      AgentState(R(100)),
      [AgentState(R(1)) EXCEPT !.current_position = R(1),
                               !.active_plan = StartPlan("ACTIVE"),
                               !.last_update_time = 1],
      [AgentState(R(100)) EXCEPT !.active_plan = StartPlan("CLOSED"),
                                 !.last_update_time = 1] }

StartInit ==
    /\ given \in [event : StartStates, store : StartStates]
    /\ event = StartEvent(given.event)
    /\ store = given.store
    /\ cycles = 1
    /\ pre = given.store
    /\ unfilled = FALSE
    /\ trace = <<>>
    /\ calls = NoCalls
    /\ price = -1
    /\ lastPrice = -1
    /\ review = NoReply
    /\ caught = ""

StartNext ==
    \/ analyze_market
    \/ formulate_plan
    \/ risk_review
    \/ execute_or_monitor

StartSpec == StartInit /\ [][StartNext]_vars


\* ================================================================== claims
PlanOf(st) == IF IsNone(st) THEN None ELSE st.active_plan

\* The AgentState an invocation works on: the one supplied, or the default.
StartOf(st) == IF IsNone(st) THEN AgentState(R(DefaultCash)) ELSE st

PlanIsActive(st) == ~IsNone(PlanOf(st)) /\ PlanOf(st).status = "ACTIVE"

LastStep == IF trace = <<>> THEN "" ELSE trace[Len(trace)]

\* The reviewer replied, and its reply is not valid JSON or carries no
\* boolean under "approved".
LacksApprovedBool(r) ==
    \/ r.kind = "text"
    \/ /\ r.kind = "json"
       /\ \/ r.value.t # "object"
          \/ "approved" \notin DOMAIN r.value.f
          \/ r.value.f["approved"].t # "bool"

\* The reviewer's reply is a JSON object whose "approved" is the boolean b.
ApprovedIs(r, b) ==
    /\ r.kind = "json"
    /\ r.value.t = "object"
    /\ "approved" \in DOMAIN r.value.f
    /\ r.value.f["approved"] = JBool(b)

\* C1 (fail-closed review): when the reviewer's reply is not valid JSON or
\* lacks an `approved` boolean, the invocation ends with active_plan equal
\* to its value before the invocation.
C1_FailClosedReview ==
    (Finished /\ LacksApprovedBool(review)) => PlanOf(store) = PlanOf(pre)

\* C2 (advisor parse failure is never fatal): when the advisor's text does
\* not parse into a TradingPlan, formulate_plan emits a TradeProposalEvent
\* with a HOLD plan, target 0, stop 0 and reasoning starting "Error:", and
\* the invocation does not end in a workflow failure.
C2_AdvisorParseFailureNotFatal ==
    (LastStep = "formulate_plan" /\ caught # "") =>
        /\ event.type = "TradeProposalEvent"
        /\ event.proposal.action = "HOLD"
        /\ event.proposal.target_price = 0
        /\ event.proposal.stop_loss = 0
        /\ event.proposal.reasoning[1] = "Error: "

\* The plan q is the plan p, possibly closed and annotated since.
SameTrade(p, q) ==
    /\ ~IsNone(q)
    /\ Len(q.reasoning) >= Len(p.reasoning)
    /\ [q EXCEPT !.status = p.status,
                 !.reasoning = SubSeq(@, 1, Len(p.reasoning))] = p

\* C3 (no double-activation): in an invocation that starts from a state
\* whose plan is ACTIVE, the advisor and the reviewer are never called, no
\* snapshot is taken, the only step after analyze_market is
\* execute_or_monitor, and the stored plan is never replaced by another.
C3_NoDoubleActivation ==
    PlanIsActive(pre) =>
        /\ calls.advisor = 0 /\ calls.reviewer = 0 /\ calls.snapshot = 0
        /\ event.type \notin {"MarketAnalysisEvent", "TradeProposalEvent"}
        /\ trace \in {<<>>, <<"analyze_market">>,
                      <<"analyze_market", "execute_or_monitor">>}
        /\ ~IsNone(store) => SameTrade(pre.active_plan, store.active_plan)

\* C3 witness: an invocation that started with an ACTIVE plan has returned
\* after analyze_market and execute_or_monitor.
C3_Witness ==
    /\ PlanIsActive(pre)
    /\ event.type = "StopEvent"
    /\ trace = <<"analyze_market", "execute_or_monitor">>

\* The scenario of C4: the invocation started flat with no plan and cash
\* 10000, the advisor proposed BUY and the reviewer approved.
C4_Scenario ==
    /\ IsNone(PlanOf(pre))
    /\ StartOf(pre).cash_balance = R(10000)
    /\ StartOf(pre).current_position = R(0)
    /\ ApprovedIs(review, TRUE)
    /\ PlanOf(store).action = "BUY"

\* C4 as claimed (approval does not fill): in that scenario the invocation
\* ends with the plan ACTIVE, last_update_time set, and current_position
\* and cash_balance unchanged.
C4_ApprovalDoesNotFill ==
    (C4_Scenario /\ event.type = "StopEvent") =>
        /\ store.active_plan.status = "ACTIVE"
        /\ store.last_update_time # 0
        /\ store.current_position = R(0)
        /\ store.cash_balance = R(10000)

\* C4 as amended: in that scenario the state risk_review hands to
\* execute_or_monitor has the plan ACTIVE, last_update_time set, position
\* and cash unchanged; the entry fill happens in the execute_or_monitor step
\* of the same invocation, so an invocation that returns (price P > 0) ends
\* with the plan ACTIVE, current_position = 0.99*10000/P and
\* cash_balance = 10000 - current_position*P.
C4_ApprovalThenFill ==
    C4_Scenario =>
        /\ store.active_plan.status = "ACTIVE"
        /\ store.last_update_time # 0
        /\ event.type = "TradeSignalEvent" =>
              /\ store.current_position = R(0)
              /\ store.cash_balance = R(10000)
        /\ event.type = "StopEvent" =>
              /\ price > 0
              /\ store.current_position = RDiv(R(9900), R(price))
              /\ store.cash_balance = RSub(R(10000), RMul(store.current_position, R(price)))

\* C4 witness: the scenario's invocation has returned with the position filled.
C4_Witness ==
    /\ C4_Scenario
    /\ event.type = "StopEvent"
    /\ store.current_position # R(0)

\* C5 (HOLD short-circuit): a TradeProposalEvent whose plan is HOLD is
\* answered by a StopEvent with a string result, without a reviewer call,
\* and leaves cash_balance, current_position and active_plan as they were
\* at the start of the invocation.
C5_HoldShortCircuit ==
    [][ (event.type = "TradeProposalEvent" /\ event.proposal.action = "HOLD") =>
          /\ event'.type = "StopEvent"
          /\ event'.result.kind = "str"
          /\ event'.result.text = "Trader decided to HOLD. No action."
          /\ calls'.reviewer = 0
          /\ review' = NoReply
          /\ store'.cash_balance = StartOf(pre).cash_balance
          /\ store'.current_position = StartOf(pre).current_position
          /\ store'.active_plan = StartOf(pre).active_plan ]_vars

\* C5 witness: an invocation ended in risk_review on a HOLD proposal.
C5_Witness ==
    /\ event.type = "StopEvent"
    /\ LastStep = "risk_review"
    /\ event.result.text = "Trader decided to HOLD. No action."
    /\ calls.advisor = 1


\* C6 (rejection leaves the state unmodified): when the reviewer's reply
\* parses and `approved` is false, the invocation has ended with a string
\* result carrying the reviewer's reasoning, and the AgentState equals the
\* one the invocation started with; the proposal is not stored.
C6_RejectionLeavesState ==
    ApprovedIs(review, FALSE) =>
        /\ event.type = "StopEvent"
        /\ LastStep = "risk_review"
        /\ event.result.kind = "str"
        /\ event.result.text = "Plan Rejected: "
        /\ event.result.detail =
              (IF "reasoning" \in DOMAIN review.value.f
               THEN review.value.f["reasoning"].s ELSE "None")
        /\ store = StartOf(pre)

\* C6 witness: an invocation ended on an explicit rejection with reasoning.
C6_Witness ==
    /\ ApprovedIs(review, FALSE)
    /\ event.type = "StopEvent"
    /\ event.result.detail = "too risky"

\* 0.99 * c / p and c - q * p, computed apart from the model's EntryFill.
EntryQuantity(c, p) == RDiv(RMul(<<99, 100>>, c), R(p))

\* C7 (conservation on entry): when execute_or_monitor runs with an ACTIVE
\* BUY plan and current_position = 0 at a price P > 0 with cash C, then
\* afterwards current_position = 0.99*C/P, cash_balance = C -
\* current_position*P = 0.01*C, and the plan is unchanged (still ACTIVE).
C7_ConservationOnEntry ==
    [][ ( /\ event.type = "TradeSignalEvent"
          /\ PlanIsActive(store)
          /\ store.active_plan.action = "BUY"
          /\ store.current_position = R(0)
          /\ event'.type = "StopEvent"
          /\ price' > 0 ) =>
          /\ store'.current_position = EntryQuantity(store.cash_balance, price')
          /\ store'.cash_balance =
                RSub(store.cash_balance, RMul(store'.current_position, R(price')))
          /\ store'.cash_balance = RMul(<<1, 100>>, store.cash_balance)
          /\ store'.active_plan = store.active_plan
          /\ store'.last_update_time = store.last_update_time ]_vars

\* C7 witness: execute_or_monitor has filled a BUY entry.
C7_Witness ==
    /\ event.type = "StopEvent"
    /\ LastStep = "execute_or_monitor"
    /\ StartOf(pre).current_position = R(0)
    /\ store.current_position # R(0)
    /\ store.active_plan.status = "ACTIVE"
    /\ store.active_plan.action = "BUY"

\* C8 (conservation on exit): when execute_or_monitor runs with an ACTIVE
\* BUY plan and an open position Q # 0 at price P with cash C, then if
\* P <= stop_loss or P >= target_price afterwards cash_balance = C + Q*P,
\* current_position = 0 and the plan is CLOSED; otherwise nothing in the
\* state changes and the plan stays ACTIVE.
C8_ConservationOnExit ==
    [][ ( /\ event.type = "TradeSignalEvent"
          /\ PlanIsActive(store)
          /\ store.active_plan.action = "BUY"
          /\ store.current_position # R(0)
          /\ event'.type = "StopEvent" ) =>
          IF price' <= store.active_plan.stop_loss
             \/ price' >= store.active_plan.target_price
          THEN /\ store'.cash_balance =
                     RAdd(store.cash_balance, RMul(store.current_position, R(price')))
               /\ store'.current_position = R(0)
               /\ store'.active_plan.status = "CLOSED"
          ELSE /\ store' = store
               /\ store'.active_plan.status = "ACTIVE" ]_vars

\* C8 witness: execute_or_monitor has liquidated an open position.
C8_Witness ==
    /\ event.type = "StopEvent"
    /\ LastStep = "execute_or_monitor"
    /\ PlanIsActive(pre)
    /\ pre.current_position # R(0)
    /\ store.active_plan.status = "CLOSED"
    /\ store.current_position = R(0)
    /\ store.cash_balance = RAdd(pre.cash_balance, RMul(pre.current_position, R(price)))

\* C9 (idempotent monitoring): from a state with an ACTIVE plan and an open
\* position, a run of the execute/monitor step that follows another run at
\* the same current price leaves the state as that run left it.
C9_IdempotentMonitoring ==
    [][ ( /\ PlanIsActive(pre)
          /\ pre.current_position # R(0)
          /\ event.type = "TradeSignalEvent"
          /\ Len(trace) >= 1
          /\ event'.type = "StopEvent"
          /\ price' = price ) =>
          store' = store ]_vars

\* C9 witness: the step ran twice at one price from an ACTIVE plan with an
\* open position, and the first run liquidated.
C9_Witness ==
    /\ PlanIsActive(pre)
    /\ pre.current_position # R(0)
    /\ trace = <<"execute_or_monitor", "execute_or_monitor">>
    /\ event.type = "StopEvent"
    /\ price = lastPrice
    /\ store.active_plan.status = "CLOSED"

\* C10 (result shape): an invocation that returns has returned a string
\* exactly when it ended in risk_review (HOLD, rejection, review error) and
\* the AgentState exactly when it ended in execute_or_monitor (on the fast
\* path or right after an approval).
C10_ResultShape ==
    event.type = "StopEvent" =>
        \/ /\ event.result.kind = "str"
           /\ trace = <<"analyze_market", "formulate_plan", "risk_review">>
           /\ event.result.text \in {"Trader decided to HOLD. No action.",
                                     "Plan Rejected: ", "Risk Review Error: "}
        \/ /\ event.result.kind = "state"
           /\ event.result.state = store
           /\ \/ /\ trace = <<"analyze_market", "execute_or_monitor">>
                 /\ PlanIsActive(pre)
              \/ /\ trace = <<"analyze_market", "formulate_plan", "risk_review",
                              "execute_or_monitor">>
                 /\ calls.reviewer = 1

\* C10 witness: an invocation returned the state right after an approval.
C10_Witness ==
    /\ event.type = "StopEvent"
    /\ event.result.kind = "state"
    /\ Len(trace) = 4


\* a <= b and a < b for rationals.
RLeq(a, b)  == a[1] * b[2] <= b[1] * a[2]
RLess(a, b) == a[1] * b[2] < b[1] * a[2]

\* C11 (cash_balance is never negative): from a freshly initialized state,
\* whatever the advisor and the reviewer answer and whatever the prices,
\* cash_balance >= 0 and current_position >= 0 in every reachable state.
C11_CashNeverNegative ==
    /\ ~IsNone(store) =>
          /\ RLeq(R(0), store.cash_balance)
          /\ RLeq(R(0), store.current_position)
    /\ (event.type = "StartEvent" /\ ~IsNone(event.state)) =>
          /\ RLeq(R(0), event.state.cash_balance)
          /\ RLeq(R(0), event.state.current_position)

\* C11 witness: a position was liquidated at a loss, leaving less cash than
\* the initial 10000 and still no negative balance.
C11_Witness ==
    /\ event.type = "StopEvent"
    /\ LastStep = "execute_or_monitor"
    /\ store.active_plan.status = "CLOSED"
    /\ store.current_position = R(0)
    /\ RLess(store.cash_balance, R(10000))
    /\ RLeq(R(0), store.cash_balance)

\* Every AgentState the program holds: the stored one and the one travelling
\* in a StartEvent.
StatesHeld ==
    {store} \cup (IF event.type = "StartEvent" THEN {event.state} ELSE {})

\* C12 (a HOLD plan is never stored or activated): from a freshly initialized
\* state, active_plan is absent or a plan whose action is BUY or SELL and
\* whose status is ACTIVE or CLOSED; no HOLD plan and no PENDING plan is ever
\* written into active_plan.
C12_HoldNeverStored ==
    \A st \in StatesHeld :
        (~IsNone(st) /\ ~IsNone(st.active_plan)) =>
            /\ st.active_plan.action \in {"BUY", "SELL"}
            /\ st.active_plan.status \in {"ACTIVE", "CLOSED"}

\* C12 witness: the advisor proposed HOLD while an earlier plan sat closed in
\* the state; the cycle ended at risk_review and the stored plan is still the
\* closed BUY plan.
C12_Witness ==
    /\ event.type = "StopEvent"
    /\ LastStep = "risk_review"
    /\ calls.reviewer = 0
    /\ calls.advisor = 1
    /\ ~IsNone(store) /\ ~IsNone(store.active_plan)
    /\ store.active_plan.status = "CLOSED"
    /\ store.active_plan.action = "BUY"

\* C13 (snapshot failure is fatal and side-effect free): when the market
\* snapshot fetch in analyze_market fails, the invocation ends as a failure
\* surfaced to the caller, neither the advisor nor the reviewer is called, no
\* later step runs, and an AgentState that existed before the invocation is
\* left exactly as it was.
C13_SnapshotFailureFatal ==
    calls.snapshot_raised > 0 =>
        /\ event = WorkflowFailure("snapshot")
        /\ trace = <<"analyze_market">>
        /\ calls.advisor = 0 /\ calls.reviewer = 0 /\ calls.price = 0
        /\ ~IsNone(pre) => store = pre

\* C13 witness: the snapshot fetch failed in an invocation that started from
\* an existing state holding a closed plan and spent cash.
C13_Witness ==
    /\ calls.snapshot_raised > 0
    /\ event.type = "WorkflowFailure"
    /\ ~IsNone(pre) /\ ~IsNone(pre.active_plan)
    /\ pre.active_plan.status = "CLOSED"
    /\ pre.cash_balance # R(DefaultCash)

HeldPlan ==
    PlanOf(IF event.type = "StartEvent" /\ ~IsNone(event.state)
           THEN event.state ELSE store)

\* C15 (plan status state machine): whatever the advisor outputs, a plan's
\* status changes only PENDING -> ACTIVE, in risk_review on the reviewer's
\* approval, and ACTIVE -> CLOSED, in execute_or_monitor when an open position
\* meets the stop or the target; a CLOSED plan never becomes ACTIVE again and
\* FILLED is never assigned.
C15_StatusStateMachine ==
    [][ /\ (event.type = "TradeProposalEvent" /\ event'.type = "TradeSignalEvent") =>
              /\ event.proposal.status # "ACTIVE" => event.proposal.status = "PENDING"
              /\ HeldPlan' = [event.proposal EXCEPT !.status = "ACTIVE"]
              /\ calls'.reviewer = 1
        /\ (event.type = "TradeProposalEvent" /\ event'.type # "TradeSignalEvent") =>
              HeldPlan' = HeldPlan
        /\ (event.type = "TradeSignalEvent" /\ HeldPlan' # HeldPlan) =>
              /\ HeldPlan.status = "ACTIVE"
              /\ HeldPlan'.status = "CLOSED"
              /\ store.current_position # R(0)
              /\ price' <= HeldPlan.stop_loss \/ price' >= HeldPlan.target_price
        /\ event.type \notin {"TradeProposalEvent", "TradeSignalEvent"} =>
              HeldPlan' = HeldPlan
        /\ ~IsNone(HeldPlan') => HeldPlan'.status # "FILLED"
      ]_vars

\* The step sequences one event chain can run.
Chains ==
    { <<>>,
      <<"analyze_market">>,
      <<"analyze_market", "formulate_plan">>,
      <<"analyze_market", "formulate_plan", "risk_review">>,
      <<"analyze_market", "formulate_plan", "risk_review", "execute_or_monitor">>,
      <<"analyze_market", "execute_or_monitor">> }

\* The failures that are a collaborator call not returning.
CollaboratorFailures == {"snapshot", "advisor", "reviewer", "price"}

\* C16 (one event chain, one terminal result): each step runs at most once per
\* invocation and in order, the advisor and the reviewer are called at most
\* once, the reviewer only on a non-HOLD proposal the advisor returned, and
\* when every collaborator call returns the invocation ends in a StopEvent:
\* it never ends in a failure other than a collaborator call failing.
C16_OneChainOneResult ==
    [][ /\ trace' \in Chains
        /\ calls'.advisor <= 1 /\ calls'.reviewer <= 1
        /\ calls'.reviewer > calls.reviewer =>
              /\ event.type = "TradeProposalEvent"
              /\ event.proposal.action # "HOLD"
              /\ calls.advisor = 1
        /\ event.type = "StopEvent" => event'.type = "StartEvent"
        /\ event'.type = "WorkflowFailure" => event'.error \in CollaboratorFailures
      ]_vars

\* The state the caller supplied: the StartEvent's if it carries one, else the
\* store's, else none.
Supplied == IF ~IsNone(given.event) THEN given.event ELSE given.store

\* C17 (state initialization): with no state in the StartEvent and none in the
\* store, analyze_market stores an AgentState with cash_balance 10000,
\* current_position 0, no active_plan and empty last_update_time and goes on
\* to the market snapshot; a supplied state (the StartEvent's taking priority
\* over the store's) is used as is, never replaced by the default; and no
\* other step creates an AgentState.
C17_StateInitialization ==
    [][ /\ event.type = "StartEvent" =>
              IF IsNone(Supplied)
              THEN /\ store' = [tag |-> "AgentState", cash_balance |-> <<10000, 1>>,
                                current_position |-> <<0, 1>>, active_plan |-> None,
                                last_update_time |-> 0]
                   /\ calls'.snapshot = 1
                   /\ event'.type \in {"MarketAnalysisEvent", "WorkflowFailure"}
              ELSE store' = Supplied
        /\ event.type # "StartEvent" => ~IsNone(store) /\ ~IsNone(store')
      ]_vars

\* C17 witness: the StartEvent and the store both carried a state, different
\* ones, and analyze_market left the StartEvent's in the store.
C17_Witness ==
    /\ trace = <<"analyze_market">>
    /\ ~IsNone(given.event) /\ ~IsNone(given.store)
    /\ given.event # given.store
    /\ store = given.event

\* The outcome annotations execute_or_monitor appends.
Annotations == {" [Stopped Out]", " [Target Hit]"}

\* C18 (reasoning is append-only): a stored plan keeps the action,
\* target_price, stop_loss and reasoning the advisor set; its reasoning only
\* ever changes by one of " [Stopped Out]" (price <= stop_loss) or
\* " [Target Hit]" (price >= target_price) being appended at liquidation, and
\* at most one annotation is ever appended to a plan.
C18_ReasoningAppendOnly ==
    [][ /\ (event.type = "TradeProposalEvent" /\ event'.type = "TradeSignalEvent") =>
              /\ HeldPlan'.reasoning = event.proposal.reasoning
              /\ HeldPlan'.action = event.proposal.action
              /\ HeldPlan'.target_price = event.proposal.target_price
              /\ HeldPlan'.stop_loss = event.proposal.stop_loss
        /\ (event.type = "TradeProposalEvent" /\ event'.type # "TradeSignalEvent") =>
              HeldPlan' = HeldPlan
        /\ (event.type # "TradeProposalEvent" /\ HeldPlan' # HeldPlan) =>
              /\ ~IsNone(HeldPlan) /\ ~IsNone(HeldPlan')
              /\ event.type = "TradeSignalEvent"
              /\ HeldPlan'.action = HeldPlan.action
              /\ HeldPlan'.target_price = HeldPlan.target_price
              /\ HeldPlan'.stop_loss = HeldPlan.stop_loss
              /\ \A i \in 1..Len(HeldPlan.reasoning) :
                    HeldPlan.reasoning[i] \notin Annotations
              /\ \/ /\ HeldPlan'.reasoning = Append(HeldPlan.reasoning, " [Stopped Out]")
                    /\ price' <= HeldPlan.stop_loss
                 \/ /\ HeldPlan'.reasoning = Append(HeldPlan.reasoning, " [Target Hit]")
                    /\ price' >= HeldPlan.target_price
      ]_vars

\* C18 witness: a plan was liquidated at its target and carries the advisor's
\* reasoning followed by the one annotation.
C18_Witness ==
    /\ event.type = "StopEvent"
    /\ LastStep = "execute_or_monitor"
    /\ ~IsNone(store.active_plan)
    /\ store.active_plan.status = "CLOSED"
    /\ store.active_plan.reasoning = <<"setup", " [Target Hit]">>
    /\ price >= store.active_plan.target_price

\* C19 (a position is always governed by an ACTIVE BUY plan): from a freshly
\* initialized state, current_position # 0 implies that active_plan is present
\* with action BUY and status ACTIVE, so the state is flat whenever a plan is
\* being proposed or reviewed.
C19_PositionGoverned ==
    /\ \A st \in StatesHeld :
          (~IsNone(st) /\ st.current_position # R(0)) =>
              /\ ~IsNone(st.active_plan)
              /\ st.active_plan.action = "BUY"
              /\ st.active_plan.status = "ACTIVE"
    /\ event.type \in {"MarketAnalysisEvent", "TradeProposalEvent"} =>
          store.current_position = R(0)

\* C19 witness: an invocation monitored an open position without closing it;
\* the position is still open under its ACTIVE BUY plan.
C19_Witness ==
    /\ event.type = "StopEvent"
    /\ trace = <<"analyze_market", "execute_or_monitor">>
    /\ ~IsNone(pre) /\ pre.current_position # R(0)
    /\ store.current_position # R(0)
    /\ store.active_plan.action = "BUY"
    /\ store.active_plan.status = "ACTIVE"

\* C20 (an ACTIVE SELL plan is absorbing): a stored SELL plan is ACTIVE and
\* never CLOSED, and an invocation that starts from a state with an ACTIVE
\* SELL plan takes the fast path to execute_or_monitor, calls neither the
\* snapshot, the advisor nor the reviewer, and leaves every field of the
\* AgentState as it found it.
C20_ActiveSellAbsorbing ==
    /\ \A st \in StatesHeld :
          (~IsNone(PlanOf(st)) /\ PlanOf(st).action = "SELL") =>
              PlanOf(st).status = "ACTIVE"
    /\ (PlanIsActive(pre) /\ pre.active_plan.action = "SELL") =>
          /\ trace \in {<<>>, <<"analyze_market">>,
                        <<"analyze_market", "execute_or_monitor">>}
          /\ calls.snapshot = 0 /\ calls.advisor = 0 /\ calls.reviewer = 0
          /\ \A st \in StatesHeld : ~IsNone(st) => st = pre
          /\ event.type = "StopEvent" =>
                /\ LastStep = "execute_or_monitor"
                /\ event.result = StateResult(pre)

\* C20 witness: the second invocation after a SELL plan was approved ran the
\* fast path and returned the state unchanged.
C20_Witness ==
    /\ cycles = 3
    /\ event.type = "StopEvent"
    /\ trace = <<"analyze_market", "execute_or_monitor">>
    /\ PlanIsActive(pre) /\ pre.active_plan.action = "SELL"
    /\ store = pre
    /\ calls.price = 1

\* C21 (one run performs at most one of entry and liquidation): a run of
\* execute_or_monitor that finds an ACTIVE BUY plan with no position fills
\* the entry whatever stop_loss and target_price are and leaves the plan as
\* it was, ACTIVE, even at a price already at or past the stop or the target;
\* a plan is closed only by a run that found the position open, and such a
\* run at a price meeting the stop or the target does close it.
C21_EntryOrExitNotBoth ==
    [][ (event.type = "TradeSignalEvent" /\ event'.type = "StopEvent") =>
          LET plan == store.active_plan
          IN  /\ (plan.action = "BUY" /\ store.current_position = R(0)) =>
                    /\ store'.active_plan = plan
                    /\ plan.status = "ACTIVE"
                    /\ store'.current_position =
                          RDiv(RMul(store.cash_balance, <<99, 100>>), R(price'))
                    /\ store'.cash_balance =
                          RSub(store.cash_balance,
                               RMul(store'.current_position, R(price')))
              /\ store'.active_plan # plan =>
                    /\ store.current_position # R(0)
                    /\ store'.active_plan.status = "CLOSED"
                    /\ store'.current_position = R(0)
              /\ (plan.action = "BUY" /\ store.current_position # R(0)
                  /\ (price' <= plan.stop_loss \/ price' >= plan.target_price)) =>
                    /\ store'.active_plan.status = "CLOSED"
                    /\ store'.current_position = R(0)
      ]_vars

\* C21 witness: the invocation that had the plan approved entered at a price
\* at or below the stop, or at or above the target, and ended with the
\* position open and the plan ACTIVE.
C21_Witness ==
    /\ event.type = "StopEvent"
    /\ trace = <<"analyze_market", "formulate_plan", "risk_review",
                 "execute_or_monitor">>
    /\ store.active_plan.action = "BUY"
    /\ store.active_plan.status = "ACTIVE"
    /\ store.current_position # R(0)
    /\ price <= store.active_plan.stop_loss \/ price >= store.active_plan.target_price

\* C23 (stop-loss takes precedence over target): when execute_or_monitor
\* runs on an open BUY position at a price with price <= stop_loss and
\* price >= target_price both true, the position is liquidated once (cash
\* credited once with position * price, position zeroed, plan CLOSED) and the
\* one annotation appended is " [Stopped Out]", never " [Target Hit]".
C23_StopBeforeTarget ==
    [][ LET plan == store.active_plan
        IN  ( /\ event.type = "TradeSignalEvent" /\ event'.type = "StopEvent"
              /\ plan.action = "BUY" /\ plan.status = "ACTIVE"
              /\ store.current_position # R(0)
              /\ price' <= plan.stop_loss /\ price' >= plan.target_price ) =>
                /\ store'.cash_balance =
                      RAdd(store.cash_balance,
                           RMul(store.current_position, R(price')))
                /\ store'.current_position = R(0)
                /\ store'.active_plan.status = "CLOSED"
                /\ store'.active_plan.reasoning =
                      Append(plan.reasoning, " [Stopped Out]")
                /\ \A i \in 1..Len(store'.active_plan.reasoning) :
                      store'.active_plan.reasoning[i] # " [Target Hit]"
      ]_vars

\* C23 witness: a position was liquidated at a price that met both the stop
\* and the target, under a plan whose stop_loss is above its target_price.
C23_Witness ==
    /\ event.type = "StopEvent"
    /\ LastStep = "execute_or_monitor"
    /\ ~IsNone(pre) /\ pre.current_position # R(0)
    /\ store.active_plan.status = "CLOSED"
    /\ store.active_plan.stop_loss > store.active_plan.target_price
    /\ price <= store.active_plan.stop_loss
    /\ price >= store.active_plan.target_price
    /\ store.active_plan.reasoning = <<"setup", " [Stopped Out]">>
    /\ store.cash_balance = RAdd(pre.cash_balance, RMul(pre.current_position, R(price)))

\* The traces of an invocation on the fast path.
FastPath ==
    {<<>>, <<"analyze_market">>, <<"analyze_market", "execute_or_monitor">>}

\* The activation survives a failed price call: the invocation ended as a
\* failure, and the state holds the plan ACTIVE, stamped, with cash and
\* position as the invocation found them.
ActivationKept ==
    (event = WorkflowFailure("price") /\ calls.reviewer = 1) =>
        /\ PlanIsActive(store)
        /\ store.last_update_time = Now /\ store.last_update_time # 0
        /\ store.cash_balance = StartOf(pre).cash_balance
        /\ store.current_position = StartOf(pre).current_position

\* The invocation after it runs on that state and takes the fast path,
\* asking neither the advisor nor the reviewer.
RetryOnFastPath ==
    unfilled =>
        /\ PlanIsActive(pre) /\ pre.last_update_time # 0
        /\ trace \in FastPath
        /\ calls.snapshot = 0 /\ calls.advisor = 0 /\ calls.reviewer = 0

\* The entry fill of the allocation fraction of the cash the invocation found.
FilledFrom(st) ==
    /\ price > 0
    /\ store.current_position = RDiv(RMul(st.cash_balance, <<99, 100>>), R(price))
    /\ store.cash_balance = RSub(st.cash_balance,
                                 RMul(store.current_position, R(price)))
    /\ store.active_plan = st.active_plan

\* C22 as stated (activation is not rolled back when the price fetch fails):
\* after the reviewer approved a proposal and the price call failed, the state
\* holds the plan ACTIVE and stamped with cash and position unchanged, and the
\* next invocation takes the fast path and performs the entry fill without
\* the advisor or the reviewer.
C22_NextInvocationFills ==
    /\ ActivationKept
    /\ RetryOnFastPath
    /\ (unfilled /\ event.type = "StopEvent") => FilledFrom(pre)

\* C22 amended: the same, with the entry fill performed for a BUY plan when
\* the price call returns a positive price; for an approved SELL plan the
\* next invocation takes the fast path and returns the state unchanged.
C22_NextInvocationFillsBuy ==
    /\ ActivationKept
    /\ RetryOnFastPath
    /\ (unfilled /\ event.type = "StopEvent") =>
          /\ LastStep = "execute_or_monitor"
          /\ IF pre.active_plan.action = "BUY"
             THEN FilledFrom(pre)
             ELSE store = pre
    /\ (unfilled /\ event.type = "WorkflowFailure") =>
          /\ store = pre
          /\ \/ event.error = "price"
             \/ event.error = "ZeroDivisionError" /\ price = 0

\* C22 witness: the invocation after an approval whose price call failed
\* filled the entry of the BUY plan on the fast path.
C22_Witness ==
    /\ unfilled
    /\ event.type = "StopEvent"
    /\ trace = <<"analyze_market", "execute_or_monitor">>
    /\ calls.advisor = 0 /\ calls.reviewer = 0
    /\ pre.active_plan.action = "BUY"
    /\ pre.current_position = R(0)
    /\ store.current_position # R(0)
    /\ store.active_plan.status = "ACTIVE"

=============================================================================
